---- MODULE Spec2Model ----
(***************************************************************************)
(* Billing Manager: the cost collection handler (POST /api/costs/collect)  *)
(* of backend/routes/costs.js, its deduplicating write to the `costs`      *)
(* collection and its bookkeeping in `collection_status`.                  *)
(*                                                                         *)
(* Every `await` of the handler that reads or writes a Firestore           *)
(* collection is a step of its own, so that requests in flight interleave  *)
(* exactly where the Node.js event loop lets them.                         *)
(*                                                                         *)
(* Further down: the administrative delete of a ledger document, the       *)
(* anomaly detector (GET /api/costs/anomalies), the credential routes and  *)
(* the schedule update, each with a specification of its own.              *)
(***************************************************************************)
EXTENDS Integers, Sequences, FiniteSets, TLC

\* ------------------------------------------------------------- bounds
\* Collection requests accepted over a run of the model.
MaxAttempts == 2
\* Longest batch (result.costs) a collector returns.
MaxBatch == 2

\* ------------------------------------------------------------- values
\* Concurrent HTTP requests the server is handling.
Procs == {1, 2}

\* serviceId values a request body carries; NoServiceId is the falsy one.
ServiceIds == {"aws", "gcp", "anthropic"}
NoServiceId == ""

\* JavaScript null, as stored in documents and returned in bodies.
Null == "null"

\* A missing document (doc.exists = false).
NoDoc == [exists |-> FALSE]

\* error.message of the failures the handler can meet.
ErrCredRead == "firestore credentials read failed"
ErrStoreRead == "firestore read failed"
ErrStoreWrite == "firestore commit failed"
ErrStatusWrite == "firestore status write failed"
ErrSecret == "secret manager failed"
ErrAdapter == "collector failed"
ErrNotFound == "NOT_FOUND: no document to update"

\* ------------------------------------------------------- credentials
\* The metadata document of a service in `credentials`: written by
\* POST /api/credentials/:serviceId (no billingAccountId) or by the GCP
\* setup script (with billingAccountId).
CredDocsOf(s) ==
  CASE s = "aws" -> { NoDoc, [serviceId |-> s, secretName |-> s] }
    [] s = "gcp" -> { [serviceId |-> s, secretName |-> s],
                      [serviceId |-> s, secretName |-> s, billingAccountId |-> "B"] }
    [] OTHER     -> { [serviceId |-> s, secretName |-> s] }

\* `!billingAccountId` on the destructured credential metadata.
HasBillingAccountId(credData) ==
  "billingAccountId" \in DOMAIN credData

\* ------------------------------------------------------ cost entries
\* An ISO timestamp is the sequence of its tokens, 'T' among them.
\* timestamp.split('T')[0]: the tokens before the first 'T'.
RECURSIVE SplitT0(_)
SplitT0(ts) ==
  IF ts = <<>> \/ Head(ts) = "T"
  THEN <<>>
  ELSE <<Head(ts)>> \o SplitT0(Tail(ts))

\* Mutant of DocId: the id keeps the whole timestamp.
DocIdWholeTimestamp(serviceId, cost) ==
  <<serviceId, "_">> \o cost.timestamp

\* Mutant of DocId: the id is the date alone.
DocIdDateOnly(serviceId, cost) ==
  SplitT0(cost.timestamp)

\* `${serviceId}_${date}`
DocId(serviceId, cost) ==
  <<serviceId, "_">> \o SplitT0(cost.timestamp)

\* The entries collectAWSCosts builds from ResultsByTime.
AwsEntries ==
  { [serviceId |-> "aws", timestamp |-> <<"d1", "T", "00">>, totalCost |-> 1],
    [serviceId |-> "aws", timestamp |-> <<"d1", "T", "12">>, totalCost |-> 2] }

\* Sequences over S of length at most n.
SeqsUpTo(S, n) ==
  UNION { [1..k -> S] : k \in 0..n }

\* costs.map(cost => ({...cost, forecast, budgets}))
AttachForecast(costs) ==
  [i \in 1..Len(costs) |-> costs[i] @@ [forecast |-> "f", budgets |-> "b"]]

\* aws-collector collectCurrentMonthCosts: forecast and budgets go on every
\* entry of the batch, or on none.
AwsResults ==
  LET plain == { [costs |-> b, count |-> Len(b)] : b \in SeqsUpTo(AwsEntries, MaxBatch) }
  IN  plain \cup { [costs |-> AttachForecast(r.costs), count |-> r.count] : r \in plain }

\* gcp-collector collectGCPCosts: one entry per date from BigQuery, or the
\* zero-cost placeholders with a warning when the BigQuery query fails.
GcpResults ==
  LET fromBigQuery == [serviceId |-> "gcp", timestamp |-> <<"d1", "T", "00">>, totalCost |-> 1]
      placeholder  == [serviceId |-> "gcp", timestamp |-> <<"d1", "T", "00">>, totalCost |-> 0]
  IN  { [costs |-> <<>>, count |-> 0],
        [costs |-> <<fromBigQuery>>, count |-> 1],
        [costs |-> <<>>, count |-> 0, warning |-> "w"],
        [costs |-> <<placeholder>>, count |-> 1, warning |-> "w"] }

CollectorResults(s) ==
  IF s = "aws" THEN AwsResults ELSE GcpResults

\* result.warning || null
WarningOrNull(result) ==
  IF "warning" \in DOMAIN result THEN result.warning ELSE Null

\* ---------------------------------------------------------- Firestore
\* docRef.set(data): the document becomes exactly data.
DocSet(ledger, id, data) ==
  (id :> data) @@ ledger

\* docRef.update(data): the given top-level fields are replaced, the others
\* stay. Only called on an existing document.
DocUpdate(ledger, id, data) ==
  (id :> (data @@ ledger[id])) @@ ledger

\* Mutant of ApplyWrites: an update of a missing document creates it.
RECURSIVE ApplyWritesUpsert(_, _)
ApplyWritesUpsert(ledger, writes) ==
  IF writes = <<>>
  THEN [ok |-> TRUE, ledger |-> ledger]
  ELSE LET w == Head(writes)
       IN  IF w.op = "set" \/ w.id \notin DOMAIN ledger
           THEN ApplyWritesUpsert(DocSet(ledger, w.id, w.data), Tail(writes))
           ELSE ApplyWritesUpsert(DocUpdate(ledger, w.id, w.data), Tail(writes))

\* WriteBatch.commit(): the writes are applied in order, all or none; an
\* update of a missing document fails the commit (ok = FALSE).
RECURSIVE ApplyWrites(_, _)
ApplyWrites(ledger, writes) ==
  IF writes = <<>>
  THEN [ok |-> TRUE, ledger |-> ledger]
  ELSE LET w == Head(writes)
       IN  IF w.op = "set"
           THEN ApplyWrites(DocSet(ledger, w.id, w.data), Tail(writes))
           ELSE IF w.id \in DOMAIN ledger
                THEN ApplyWrites(DocUpdate(ledger, w.id, w.data), Tail(writes))
                ELSE [ok |-> FALSE, ledger |-> ledger]

\* ------------------------------------------------------------- state
VARIABLES
  credentials,        \* collection `credentials`: serviceId -> metadata or NoDoc
  costs,              \* collection `costs` (the ledger): docId -> document
  collection_status,  \* collection `collection_status`: serviceId -> document
  req,                \* the request each server slot is handling
  sent,               \* the response most recently sent, with its request's tally
  now,                \* the clock read by new Date()
  attempts,           \* collection requests accepted so far
  services,           \* collection `services`: serviceId -> document
  schedules           \* collection `schedules`: serviceId -> document

vars == <<credentials, costs, collection_status, req, sent, now, attempts,
          services, schedules>>

\* A slot with no request in it.
IdleReq ==
  [ pc |-> "idle", serviceId |-> NoServiceId, credData |-> NoDoc,
    result |-> Null, docIdsToCheck |-> {}, existingDocIds |-> {},
    newRecords |-> 0, updatedRecords |-> 0 ]

\* No response sent yet.
NoResponse ==
  [ serviceId |-> NoServiceId, code |-> 0, body |-> << >>, statusWrites |-> 0 ]

\* The store as deployed: credentials saved for aws or not, for gcp through
\* the API or through the set-up script, for anthropic through the API; nothing
\* collected yet.
Init ==
  /\ credentials \in { c \in [ServiceIds -> UNION { CredDocsOf(s) : s \in ServiceIds }] :
                         \A s \in ServiceIds : c[s] \in CredDocsOf(s) }
  /\ costs = << >>
  /\ collection_status = << >>
  /\ req = [p \in Procs |-> IdleReq]
  /\ sent = NoResponse
  /\ now = 1
  /\ attempts = 0
  /\ services = << >>
  /\ schedules = << >>

\* --------------------------------------------------- handler, pieces
\* res.status(code).json(body) ends the request: the slot is free again and
\* the locals die with it. statusWrites tallies the collection_status writes
\* the request made.
Respond(p, serviceId, code, body, statusWrites) ==
  /\ req' = [req EXCEPT ![p] = IdleReq]
  /\ sent' = [ serviceId |-> serviceId, code |-> code, body |-> body,
               statusWrites |-> statusWrites ]

\* docIdsToCheck, and the ids getAll() reports as existing.
DocIdsToCheck(serviceId, batch) ==
  { DocId(serviceId, batch[i]) : i \in 1..Len(batch) }

ExistingDocIds(ledger, serviceId, batch) ==
  { id \in DocIdsToCheck(serviceId, batch) : id \in DOMAIN ledger }

\* Mutant of BuildWrites: the update branch stamps createdAt as the set branch
\* does.
RECURSIVE BuildWritesStampBoth(_, _, _, _)
BuildWritesStampBoth(serviceId, batch, existing, t) ==
  IF batch = <<>>
  THEN <<>>
  ELSE LET cost  == Head(batch)
           docId == DocId(serviceId, cost)
           write == [op |-> IF docId \in existing THEN "update" ELSE "set",
                     id |-> docId,
                     data |-> [createdAt |-> t, updatedAt |-> t] @@ cost]
       IN  <<write>> \o BuildWritesStampBoth(serviceId, Tail(batch), existing, t)

\* Mutant of BuildWrites: an id already written by this batch is skipped, so
\* the first entry of a day wins.
RECURSIVE BuildWritesFirstWins(_, _, _, _)
BuildWritesFirstWins(serviceId, batch, existing, t) ==
  IF batch = <<>>
  THEN <<>>
  ELSE LET cost  == Head(batch)
           docId == DocId(serviceId, cost)
           write == IF docId \in existing
                    THEN [op |-> "update", id |-> docId,
                          data |-> [updatedAt |-> t] @@ cost]
                    ELSE [op |-> "set", id |-> docId,
                          data |-> [createdAt |-> t, updatedAt |-> t] @@ cost]
           rest  == BuildWritesFirstWins(serviceId, Tail(batch), existing, t)
       IN  <<write>> \o SelectSeq(rest, LAMBDA w : w.id # docId)

\* Mutant of BuildWrites: the loop runs over result.costs from its end.
RECURSIVE BuildWritesReversed(_, _, _, _)
BuildWritesReversed(serviceId, batch, existing, t) ==
  IF batch = <<>>
  THEN <<>>
  ELSE LET cost  == Head(batch)
           docId == DocId(serviceId, cost)
           write == IF docId \in existing
                    THEN [op |-> "update", id |-> docId,
                          data |-> [updatedAt |-> t] @@ cost]
                    ELSE [op |-> "set", id |-> docId,
                          data |-> [createdAt |-> t, updatedAt |-> t] @@ cost]
       IN  BuildWritesReversed(serviceId, Tail(batch), existing, t) \o <<write>>

\* The loop over result.costs: an update for an id the check found, a set
\* (with createdAt) for the others.
RECURSIVE BuildWrites(_, _, _, _)
BuildWrites(serviceId, batch, existing, t) ==
  IF batch = <<>>
  THEN <<>>
  ELSE LET cost  == Head(batch)
           docId == DocId(serviceId, cost)
           write == IF docId \in existing
                    THEN [op |-> "update", id |-> docId,
                          data |-> [updatedAt |-> t] @@ cost]
                    ELSE [op |-> "set", id |-> docId,
                          data |-> [createdAt |-> t, updatedAt |-> t] @@ cost]
       IN  <<write>> \o BuildWrites(serviceId, Tail(batch), existing, t)

\* newRecords++ / updatedRecords++
CountOp(writes, op) ==
  Cardinality({ i \in 1..Len(writes) : writes[i].op = op })

\* The document the try block writes after a commit.
SuccessStatus(serviceId, result, t) ==
  [ serviceId |-> serviceId, status |-> "success", lastRun |-> t,
    costsCollected |-> result.count, warning |-> WarningOrNull(result),
    error |-> Null ]

\* The document the catch block means to write.
ErrorStatus(serviceId, msg, t) ==
  [ serviceId |-> serviceId, status |-> "error", lastRun |-> t,
    costsCollected |-> 0, warning |-> Null, error |-> msg ]

\* Whether `firestore` and `serviceId` name anything inside the catch block.
\* Both are const bindings of the try block, so they do not: the status write
\* throws a ReferenceError, which the inner catch logs.
TryBindingsVisibleInCatch == FALSE

\* The catch block: the failure status (when its write can run) and the 500.
CatchBlock(p, serviceId, msg) ==
  /\ collection_status' =
       IF TryBindingsVisibleInCatch
       THEN (serviceId :> ErrorStatus(serviceId, msg, now)) @@ collection_status
       ELSE collection_status
  /\ Respond(p, serviceId, 500, [error |-> msg],
             IF TryBindingsVisibleInCatch THEN 1 ELSE 0)

\* An early `return res.status(400).json(...)`.
Return400(p, serviceId, body) ==
  Respond(p, serviceId, 400, body, 0)

\* ------------------------------------------------------------ actions
\* A request arrives and takes the first free slot.
Accepting(p) ==
  /\ req[p].pc = "idle"
  /\ \A q \in Procs : q < p => req[q].pc # "idle"
  /\ attempts < MaxAttempts
  /\ attempts' = attempts + 1

\* The body carries no serviceId.
StartNoServiceId(p) ==
  /\ Accepting(p)
  /\ Return400(p, NoServiceId, [error |-> "serviceId is required"])
  /\ UNCHANGED <<services, schedules, credentials, costs, collection_status, now>>

\* The read of the credential document fails.
StartCredReadFails(p, s) ==
  /\ Accepting(p)
  /\ CatchBlock(p, s, ErrCredRead)
  /\ UNCHANGED <<services, schedules, credentials, costs, now>>

\* The credential document does not exist.
StartNoCredentials(p, s) ==
  /\ Accepting(p)
  /\ credentials[s] = NoDoc
  /\ Return400(p, s, [error |-> "No credentials configured for this service",
                      serviceId |-> s])
  /\ UNCHANGED <<services, schedules, credentials, costs, collection_status, now>>

\* The credential document exists: on to the secret and the collector.
StartOk(p, s) ==
  /\ Accepting(p)
  /\ credentials[s] # NoDoc
  /\ req' = [req EXCEPT ![p] =
       [IdleReq EXCEPT !.pc = "collect", !.serviceId = s, !.credData = credentials[s]]]
  /\ UNCHANGED <<services, schedules, credentials, costs, collection_status, sent, now>>

\* The secret cannot be read or parsed.
CollectSecretFails(p) ==
  /\ req[p].pc = "collect"
  /\ CatchBlock(p, req[p].serviceId, ErrSecret)
  /\ UNCHANGED <<services, schedules, credentials, costs, now, attempts>>

\* gcp without a billing account id in its credential metadata.
CollectGcpNotConfigured(p) ==
  /\ req[p].pc = "collect"
  /\ req[p].serviceId = "gcp"
  /\ ~HasBillingAccountId(req[p].credData)
  /\ Return400(p, "gcp", [error |-> "GCP billing account ID not configured",
                          serviceId |-> "gcp"])
  /\ UNCHANGED <<services, schedules, credentials, costs, collection_status, now, attempts>>

\* A serviceId none of the branches collects.
CollectNotImplemented(p) ==
  /\ req[p].pc = "collect"
  /\ req[p].serviceId \notin {"aws", "gcp"}
  /\ Return400(p, req[p].serviceId,
               [error |-> "Cost collection not implemented", serviceId |-> req[p].serviceId])
  /\ UNCHANGED <<services, schedules, credentials, costs, collection_status, now, attempts>>

\* Whether the dispatch reaches a collector.
ReachesCollector(r) ==
  \/ r.serviceId = "aws"
  \/ r.serviceId = "gcp" /\ HasBillingAccountId(r.credData)

\* Mutant of CollectAdapterFails: the failure is swallowed and a zero-cost
\* placeholder for the day is stored instead.
CollectAdapterFailsStoresPlaceholder(p) ==
  /\ req[p].pc = "collect"
  /\ ReachesCollector(req[p])
  /\ costs' = DocSet(costs, <<req[p].serviceId, "_", "d1">>,
                     [serviceId |-> req[p].serviceId,
                      timestamp |-> <<"d1", "T", "00">>, totalCost |-> 0,
                      createdAt |-> now, updatedAt |-> now])
  /\ Respond(p, req[p].serviceId, 500, [error |-> ErrAdapter], 0)
  /\ UNCHANGED <<services, schedules, credentials, collection_status, now, attempts>>

\* The collector throws.
CollectAdapterFails(p) ==
  /\ req[p].pc = "collect"
  /\ ReachesCollector(req[p])
  /\ CatchBlock(p, req[p].serviceId, ErrAdapter)
  /\ UNCHANGED <<services, schedules, credentials, costs, now, attempts>>

\* Mutant of CheckExistingFails: the rejected read is taken for "nothing
\* exists" and the batch is written with set before the error is answered.
CheckExistingFailsWritesBlind(p) ==
  /\ req[p].pc = "collect"
  /\ ReachesCollector(req[p])
  /\ \E result \in CollectorResults(req[p].serviceId) :
       costs' = ApplyWrites(costs,
                  BuildWrites(req[p].serviceId, result.costs, {}, now)).ledger
  /\ CatchBlock(p, req[p].serviceId, ErrStoreRead)
  /\ UNCHANGED <<services, schedules, credentials, now, attempts>>

\* The collector returns {costs, count, warning?}, but firestore.getAll(...)
\* rejects.
CheckExistingFails(p) ==
  /\ req[p].pc = "collect"
  /\ ReachesCollector(req[p])
  /\ CatchBlock(p, req[p].serviceId, ErrStoreRead)
  /\ UNCHANGED <<services, schedules, credentials, costs, now, attempts>>

\* The collector returns {costs, count, warning?} and firestore.getAll(...)
\* answers: existingDocIds is what the ledger holds at the read. Nothing the
\* handler shares is touched between the collector's return and that read, so
\* the two are one step.
CollectAndCheck(p, result) ==
  /\ req[p].pc = "collect"
  /\ ReachesCollector(req[p])
  /\ result \in CollectorResults(req[p].serviceId)
  /\ req' = [req EXCEPT ![p].pc = "commit",
                        ![p].result = result,
                        ![p].docIdsToCheck =
                          DocIdsToCheck(req[p].serviceId, result.costs),
                        ![p].existingDocIds =
                          ExistingDocIds(costs, req[p].serviceId, result.costs)]
  /\ UNCHANGED <<services, schedules, credentials, costs, collection_status, sent, now, attempts>>

\* Mutant of WritesOf: existence is read again when the batch commits.
WritesOfRechecked(r, t) ==
  BuildWrites(r.serviceId, r.result.costs,
              ExistingDocIds(costs, r.serviceId, r.result.costs), t)

\* The batch this request commits, built when the getAll() answer arrived.
WritesOf(r, t) ==
  BuildWrites(r.serviceId, r.result.costs, r.existingDocIds, t)

\* Mutant of CommitFails: the success status is written although the commit
\* was rejected.
CommitFailsRecordsSuccess(p) ==
  /\ req[p].pc = "commit"
  /\ collection_status' =
       (req[p].serviceId :> SuccessStatus(req[p].serviceId, req[p].result, now))
         @@ collection_status
  /\ Respond(p, req[p].serviceId, 500, [error |-> ErrStoreWrite], 1)
  /\ UNCHANGED <<services, schedules, credentials, costs, now, attempts>>

\* batch.commit() rejects: a store failure, or an update whose document is gone.
CommitFails(p) ==
  /\ req[p].pc = "commit"
  /\ CatchBlock(p, req[p].serviceId,
       IF ApplyWrites(costs, WritesOf(req[p], now)).ok
       THEN ErrStoreWrite ELSE ErrNotFound)
  /\ UNCHANGED <<services, schedules, credentials, costs, now, attempts>>

\* batch.commit() resolves: every write of the batch is in the ledger. Of the
\* locals only result.count, result.warning and the two counters are read
\* after it; result.costs and existingDocIds are dropped here.
Commit(p) ==
  LET writes == WritesOf(req[p], now)
  IN  /\ req[p].pc = "commit"
      /\ ApplyWrites(costs, writes).ok
      /\ costs' = ApplyWrites(costs, writes).ledger
      /\ now' = now + 1
      /\ req' = [req EXCEPT ![p].pc = "status",
                            ![p].result = [@ EXCEPT !.costs = <<>>],
                            ![p].existingDocIds = {},
                            ![p].newRecords = CountOp(writes, "set"),
                            ![p].updatedRecords = CountOp(writes, "update")]
      /\ UNCHANGED <<services, schedules, credentials, collection_status, sent, attempts>>

\* The write of the success status rejects.
RecordSuccessFails(p) ==
  /\ req[p].pc = "status"
  /\ CatchBlock(p, req[p].serviceId, ErrStatusWrite)
  /\ UNCHANGED <<services, schedules, credentials, costs, now, attempts>>

\* The success status is written and the summary returned.
RecordSuccess(p) ==
  LET r == req[p]
      body == [ success |-> TRUE, serviceId |-> r.serviceId,
                costsCollected |-> r.result.count,
                newRecords |-> r.newRecords, updatedRecords |-> r.updatedRecords,
                timestamp |-> now, warning |-> WarningOrNull(r.result) ]
  IN  /\ r.pc = "status"
      /\ collection_status' =
           (r.serviceId :> SuccessStatus(r.serviceId, r.result, now)) @@ collection_status
      /\ Respond(p, r.serviceId, 200, body, 1)
      /\ UNCHANGED <<services, schedules, credentials, costs, now, attempts>>

\* One step of one request.
Step(p) ==
  \/ StartNoServiceId(p)
  \/ \E s \in ServiceIds : StartCredReadFails(p, s)
  \/ \E s \in ServiceIds : StartNoCredentials(p, s)
  \/ \E s \in ServiceIds : StartOk(p, s)
  \/ CollectSecretFails(p)
  \/ CollectGcpNotConfigured(p)
  \/ CollectNotImplemented(p)
  \/ CollectAdapterFails(p)
  \/ CheckExistingFails(p)
  \/ \E result \in AwsResults \cup GcpResults : CollectAndCheck(p, result)
  \/ CommitFails(p)
  \/ Commit(p)
  \/ RecordSuccessFails(p)
  \/ RecordSuccess(p)

Next == \E p \in Procs : Step(p)

Spec == Init /\ [][Next]_vars

\* ============================================================= claims
\* The (service, calendar day) a ledger document is about.
ServiceDay(doc) ==
  <<doc.serviceId, SplitT0(doc.timestamp)>>

\* C1. Key uniqueness: whatever collection runs have happened, in whatever
\* interleaving, no two documents of the ledger are about the same service
\* and the same calendar day, and each sits under the id made of both.
C1_KeyUniqueness ==
  /\ \A i, j \in DOMAIN costs :
       ServiceDay(costs[i]) = ServiceDay(costs[j]) => i = j
  /\ \A i \in DOMAIN costs :
       i = <<costs[i].serviceId, "_">> \o SplitT0(costs[i].timestamp)

\* C1 witness: a record created by one run was written again by a later run
\* that reported an intra-day timestamp of the same day.
C1_Witness ==
  \E i \in DOMAIN costs :
    /\ costs[i].timestamp = <<"d1", "T", "12">>
    /\ costs[i].createdAt < costs[i].updatedAt

\* ------------------------------------------------ helpers of claims
\* The step in which request p's batch commit resolves.
CommitStep(p) ==
  req[p].pc = "commit" /\ req'[p].pc = "status"

\* The last entry of batch whose document id is id.
LastWithId(serviceId, batch, id) ==
  LET at == { i \in 1..Len(batch) : DocId(serviceId, batch[i]) = id }
  IN  batch[CHOOSE i \in at : \A j \in at : j <= i]

\* The ledger holds, for every entry of batch, a document under the entry's
\* id that carries the fields of the last entry with that id.
HoldsBatch(ledger, serviceId, batch) ==
  \A id \in DocIdsToCheck(serviceId, batch) :
    /\ id \in DOMAIN ledger
    /\ LET last == LastWithId(serviceId, batch, id)
       IN  \A f \in DOMAIN last : f \in DOMAIN ledger[id] /\ ledger[id][f] = last[f]

\* The ledger with the updatedAt of every document left out.
WithoutUpdatedAt(ledger) ==
  [id \in DOMAIN ledger |->
     [f \in DOMAIN ledger[id] \ {"updatedAt"} |-> ledger[id][f]]]

\* C2. Idempotence: a run whose batch the ledger already holds (as it does
\* right after a run of the same batch) and whose existence check saw all of
\* the batch's documents commits without changing anything but updatedAt,
\* and counts no new record and one updated record per entry of the batch.
C2_Idempotence ==
  [][\A p \in Procs :
       ( /\ CommitStep(p)
         /\ HoldsBatch(costs, req[p].serviceId, req[p].result.costs)
         /\ DocIdsToCheck(req[p].serviceId, req[p].result.costs)
              \subseteq req[p].existingDocIds )
       => /\ WithoutUpdatedAt(costs') = WithoutUpdatedAt(costs)
          /\ req'[p].newRecords = 0
          /\ req'[p].updatedRecords = Len(req[p].result.costs)]_vars

\* C2 witness: the first run of a two-entry batch has answered (two new
\* records), and a second run has committed two entries onto the record the
\* first one created.
C2_Witness ==
  /\ sent.code = 200 /\ sent.serviceId = "aws" /\ sent.body.newRecords = 2
  /\ \E p \in Procs :
       /\ req[p].pc = "status" /\ req[p].serviceId = "aws"
       /\ req[p].newRecords = 0 /\ req[p].updatedRecords = 2
  /\ \E id \in DOMAIN costs : costs[id].createdAt < costs[id].updatedAt

\* C3 (as claimed). Last write wins without merge: when a commit updates a
\* document its existence check found, the document afterwards is exactly the
\* new entry plus the old createdAt and the new updatedAt.
C3_NoMergeOnUpdate ==
  [][\A p \in Procs :
       CommitStep(p) =>
         \A id \in req[p].existingDocIds \cap DOMAIN costs :
           costs'[id] =
             [createdAt |-> costs[id].createdAt, updatedAt |-> now]
               @@ LastWithId(req[p].serviceId, req[p].result.costs, id)]_vars

\* C4 (as claimed). createdAt stability: no step changes the createdAt of a
\* document the ledger holds, in any interleaving of collection runs.
C4_CreatedAtStable ==
  [][\A id \in DOMAIN costs :
       id \in DOMAIN costs' /\ costs'[id].createdAt = costs[id].createdAt]_vars

\* C5 (as claimed). After a collection attempt that failed in its collector,
\* in a store read or in the batch commit, the service's status document says
\* error, with no costs collected, no warning and the failure's
\* message, and the caller holds an error object with that message.
C5_FailureRecorded ==
  ( /\ sent.code = 500
    /\ sent.body.error \in {ErrAdapter, ErrStoreRead, ErrStoreWrite, ErrNotFound} )
  =>
    /\ sent.body = [error |-> sent.body.error]
    /\ sent.serviceId \in DOMAIN collection_status
    /\ LET st == collection_status[sent.serviceId]
       IN  /\ st.status = "error"
           /\ st.costsCollected = 0
           /\ st.warning = Null
           /\ st.error = sent.body.error

\* C6 (as claimed). Every collection attempt for a serviceId, whatever its
\* outcome, has written the service's status document exactly once by the
\* time it answers: a success document on success, an error one otherwise.
C6_OneStatusWritePerAttempt ==
  (sent.code # 0 /\ sent.serviceId # NoServiceId) =>
    /\ sent.statusWrites = 1
    /\ sent.serviceId \in DOMAIN collection_status
    /\ collection_status[sent.serviceId].status =
         (IF sent.code = 200 THEN "success" ELSE "error")

\* C7 (as claimed). There is one status document per serviceId, filed under
\* that id, and the one of the service whose attempt ended last describes
\* that attempt: its status, its count, its warning and its error.
C7_StatusIsLastAttempt ==
  /\ \A s \in DOMAIN collection_status : collection_status[s].serviceId = s
  /\ (sent.code # 0 /\ sent.serviceId # NoServiceId) =>
       /\ sent.serviceId \in DOMAIN collection_status
       /\ LET st == collection_status[sent.serviceId]
          IN  IF sent.code = 200
              THEN /\ st.status = "success"
                   /\ st.costsCollected = sent.body.costsCollected
                   /\ st.warning = sent.body.warning
                   /\ st.error = Null
              ELSE /\ st.status = "error"
                   /\ st.costsCollected = 0
                   /\ st.warning = Null
                   /\ st.error = sent.body.error

\* C8. No entry is lost: when a batch commit resolves, the ledger holds for
\* every entry of the batch a document under the entry's id with the fields
\* of that entry, or of the last entry of the batch with the same id.
C8_NoEntryLost ==
  [][\A p \in Procs :
       CommitStep(p) => HoldsBatch(costs', req[p].serviceId, req[p].result.costs)]_vars

\* C8 witness: a committed batch of two entries for the same day, the ledger
\* holding the second one's timestamp and cost.
C8_Witness ==
  \E p \in Procs :
    /\ req[p].pc = "status" /\ req[p].serviceId = "aws"
    /\ req[p].newRecords + req[p].updatedRecords = 2
    /\ <<"aws", "_", "d1">> \in DOMAIN costs
    /\ costs[<<"aws", "_", "d1">>].timestamp = <<"d1", "T", "12">>
    /\ costs[<<"aws", "_", "d1">>].totalCost = 2
    /\ costs[<<"aws", "_", "d1">>].updatedAt = now - 1

\* C9 (as claimed). The counters a commit leaves for the summary are the
\* number of documents the commit created and the number of documents,
\* present before it, that it overwrote.
C9_CountsAreRecords ==
  [][\A p \in Procs :
       CommitStep(p) =>
         /\ req'[p].newRecords = Cardinality(DOMAIN costs' \ DOMAIN costs)
         /\ req'[p].updatedRecords =
              Cardinality(DocIdsToCheck(req[p].serviceId, req[p].result.costs)
                            \cap DOMAIN costs)]_vars

\* C10. A collector failure leaves the ledger alone: the step in which a
\* request's collector fails (answered 500 with the collector's message) does
\* not change the ledger, and the ledger changes in no step but the commit of
\* a request whose collector has returned a batch.
C10_AdapterFailureKeepsLedger ==
  [][/\ \A p \in Procs :
          ( /\ req[p].pc = "collect" /\ req'[p].pc = "idle"
            /\ sent'.code = 500 /\ sent'.body.error = ErrAdapter )
          => costs' = costs
     /\ costs' # costs => \E p \in Procs : CommitStep(p)]_vars

\* C10 witness: a collector failure was answered while the ledger held a
\* record.
C10_Witness ==
  /\ sent.code = 500 /\ sent.body.error = ErrAdapter
  /\ DOMAIN costs # {}

\* C11. A failed existence check writes nothing: the step in which a
\* request's getAll() read is rejected (answered 500 with the read's message)
\* leaves the ledger as it was, and the request is over without having
\* reached its commit.
C11_FailedCheckKeepsLedger ==
  [][\A p \in Procs :
       ( /\ req[p].pc = "collect" /\ req'[p].pc = "idle"
         /\ sent'.code = 500 /\ sent'.body.error = ErrStoreRead )
       => /\ costs' = costs
          /\ req'[p].existingDocIds = {} /\ req'[p].newRecords = 0]_vars

\* C11 witness: the last answer is that of a rejected existence check, no
\* request is in flight, and the ledger holds the record an earlier run had
\* committed.
C11_Witness ==
  /\ sent.code = 500 /\ sent.body.error = ErrStoreRead
  /\ \A p \in Procs : req[p].pc = "idle"
  /\ DOMAIN costs # {}

\* The ledger with the clock's stamps of every document left out.
WithoutStamps(ledger) ==
  [id \in DOMAIN ledger |->
     [f \in DOMAIN ledger[id] \ {"createdAt", "updatedAt"} |-> ledger[id][f]]]

\* The ledger after the batch of request r commits at time t.
AfterCommit(ledger, r, t) ==
  ApplyWrites(ledger, WritesOf(r, t)).ledger

\* C21. Runs for different services do not meet: a commit changes only
\* ledger documents whose id starts with its own serviceId and a status write
\* only the document of its own serviceId; an existence check of one service
\* reads the same whether or not a pending commit of another service has
\* happened; and two pending commits of different services give the same
\* ledger (the clock's stamps aside) in either order. Every interleaving of
\* such runs therefore ends as one of their sequential orders does.
C21_DifferentServicesCommute ==
  [][/\ costs' # costs =>
          \E p \in Procs :
            /\ CommitStep(p)
            /\ \A id \in DOMAIN costs' :
                 (id \notin DOMAIN costs \/ costs'[id] # costs[id])
                   => id[1] = req[p].serviceId
     /\ collection_status' # collection_status =>
          \E p \in Procs :
            /\ req[p].pc = "status"
            /\ \A s \in DOMAIN collection_status' :
                 (s \notin DOMAIN collection_status
                    \/ collection_status'[s] # collection_status[s])
                   => s = req[p].serviceId
     /\ \A p, q \in Procs :
          ( /\ req[p].pc = "commit" /\ req[p].serviceId # req[q].serviceId
            /\ req[q].pc = "collect" /\ req'[q].pc = "commit" )
          => req'[q].existingDocIds
               = ExistingDocIds(AfterCommit(costs, req[p], now),
                                req[q].serviceId, req'[q].result.costs)
     /\ \A p, q \in Procs :
          ( /\ req[p].pc = "commit" /\ req[q].pc = "commit"
            /\ req[p].serviceId # req[q].serviceId )
          => /\ WithoutStamps(AfterCommit(AfterCommit(costs, req[p], now),
                                          req[q], now + 1))
                  = WithoutStamps(AfterCommit(AfterCommit(costs, req[q], now),
                                              req[p], now + 1))
             /\ ApplyWrites(AfterCommit(costs, req[p], now),
                            WritesOf(req[q], now + 1)).ok
                  = ApplyWrites(costs, WritesOf(req[q], now)).ok]_vars

\* C21 witness: an aws run and a gcp run are both between their commit and
\* their status write, each having created its record.
C21_Witness ==
  \E p, q \in Procs :
    /\ req[p].pc = "status" /\ req[p].serviceId = "aws" /\ req[p].newRecords >= 1
    /\ req[q].pc = "status" /\ req[q].serviceId = "gcp" /\ req[q].newRecords = 1
    /\ <<"aws", "_", "d1">> \in DOMAIN costs
    /\ <<"gcp", "_", "d1">> \in DOMAIN costs

\* C22 (as claimed). Runs of one service that overlap: when a run commits
\* while another run of the same service is in flight past its existence
\* check, every document of the committed batch is afterwards, in full, the
\* entry this run wrote for it (with the two stamps), with no field of any
\* other run's entry in it.
C22_NoMixtureOfRuns ==
  [][\A p, q \in Procs :
       ( /\ CommitStep(p)
         /\ q # p /\ req[q].pc \in {"commit", "status"}
         /\ req[q].serviceId = req[p].serviceId )
       => \A id \in DocIdsToCheck(req[p].serviceId, req[p].result.costs) :
            WithoutStamps(costs')[id]
              = LastWithId(req[p].serviceId, req[p].result.costs, id)]_vars

\* The entries of request r's batch whose id its existence check did not
\* find.
UnseenEntries(r) ==
  { i \in 1..Len(r.result.costs) :
      DocId(r.serviceId, r.result.costs[i]) \notin r.existingDocIds }

\* C24. Nothing guards two runs of one service against each other: a run
\* whose existence check missed a document that another run has created
\* since still commits, counts every entry for that document as a new
\* record, and creates no document.
C24_UnguardedRace ==
  [][\A p \in Procs :
       ( /\ req[p].pc = "commit"
         /\ \E id \in DOMAIN costs :
              /\ id \notin req[p].existingDocIds
              /\ id \in DocIdsToCheck(req[p].serviceId, req[p].result.costs) )
       => /\ ApplyWrites(costs, WritesOf(req[p], now)).ok
          /\ CommitStep(p) =>
               /\ req'[p].newRecords = Cardinality(UnseenEntries(req[p]))
               /\ req'[p].newRecords >= 1
               /\ DOMAIN costs' = DOMAIN costs]_vars

\* C24 witness: two runs of aws are both past their commit, each counted the
\* day's key as a new record, and the ledger holds one record.
C24_Witness ==
  \E p, q \in Procs :
    /\ p # q
    /\ req[p].pc = "status" /\ req[q].pc = "status"
    /\ req[p].serviceId = "aws" /\ req[q].serviceId = "aws"
    /\ req[p].newRecords = 1 /\ req[q].newRecords = 1
    /\ req[p].updatedRecords = 0 /\ req[q].updatedRecords = 0
    /\ DOMAIN costs = { <<"aws", "_", "d1">> }

\* C25. Duplicate keys in a batch: when a committed batch holds two or more
\* entries for one (service, day) key, the ledger record of that key carries
\* afterwards the timestamp and the totalCost of the last of them in batch
\* order.
C25_LastDuplicateWins ==
  [][\A p \in Procs :
       CommitStep(p) =>
         \A i, j \in 1..Len(req[p].result.costs) :
           ( /\ i < j
             /\ DocId(req[p].serviceId, req[p].result.costs[i])
                  = DocId(req[p].serviceId, req[p].result.costs[j])
             /\ \A k \in (j + 1)..Len(req[p].result.costs) :
                  DocId(req[p].serviceId, req[p].result.costs[k])
                    # DocId(req[p].serviceId, req[p].result.costs[j]) )
           => LET doc == costs'[DocId(req[p].serviceId, req[p].result.costs[j])]
              IN  /\ doc.timestamp = req[p].result.costs[j].timestamp
                  /\ doc.totalCost = req[p].result.costs[j].totalCost]_vars

\* C25 witness: the only run so far answered two new records for one day,
\* and the day's record is the midnight entry of cost 1, which a batch lists
\* after the noon entry of cost 2 or after itself.
C25_Witness ==
  /\ sent.code = 200 /\ sent.serviceId = "aws"
  /\ sent.body.costsCollected = 2 /\ sent.body.newRecords = 2
  /\ attempts = 1
  /\ DOMAIN costs = { <<"aws", "_", "d1">> }
  /\ costs[<<"aws", "_", "d1">>].timestamp = <<"d1", "T", "00">>
  /\ costs[<<"aws", "_", "d1">>].totalCost = 1

\* ======================================= DELETE /api/costs/:costId
\* Collection runs of aws next to the administrative delete of a ledger
\* document.
InitDelete ==
  /\ credentials = [s \in ServiceIds |-> [serviceId |-> s, secretName |-> s]]
  /\ costs = << >>
  /\ collection_status = << >>
  /\ req = [p \in Procs |-> IdleReq]
  /\ sent = NoResponse
  /\ now = 1
  /\ attempts = 0
  /\ services = << >>
  /\ schedules = << >>

\* doc(costId).delete(): the ledger without the document.
DocDelete(ledger, id) ==
  [k \in DOMAIN ledger \ {id} |-> ledger[k]]

\* The delete resolves and is answered. Deleting an id the ledger does not
\* hold changes nothing.
DeleteCost(costId) ==
  /\ costId \in DOMAIN costs
  /\ costs' = DocDelete(costs, costId)
  /\ sent' = [ serviceId |-> NoServiceId, code |-> 200,
               body |-> [success |-> TRUE, costId |-> costId], statusWrites |-> 0 ]
  /\ UNCHANGED <<services, schedules, credentials, collection_status, req, now, attempts>>

\* The delete rejects.
DeleteCostFails(costId) ==
  /\ costId \in DOMAIN costs
  /\ sent' = [ serviceId |-> NoServiceId, code |-> 500,
               body |-> [error |-> ErrStoreWrite], statusWrites |-> 0 ]
  /\ UNCHANGED <<services, schedules, credentials, costs, collection_status, req, now, attempts>>

NextDelete ==
  \/ \E p \in Procs :
       \/ StartOk(p, "aws")
       \/ \E result \in AwsResults : CollectAndCheck(p, result)
       \/ CommitFails(p)
       \/ Commit(p)
       \/ RecordSuccess(p)
  \/ \E costId \in DOMAIN costs : DeleteCost(costId)
  \/ \E costId \in DOMAIN costs : DeleteCostFails(costId)

SpecDelete == InitDelete /\ [][NextDelete]_vars

\* The step in which request p writes its success status and answers.
SuccessStep(p) ==
  req[p].pc = "status" /\ req'[p].pc = "idle" /\ sent'.code = 200

C27_DeletedBeforeCommit ==
  [][\A p \in Procs :
       ( /\ req[p].pc = "commit" /\ req'[p].pc # "commit"
         /\ \E id \in req[p].existingDocIds : id \notin DOMAIN costs )
       => /\ costs' = costs
          /\ req'[p].pc = "idle"
          /\ sent'.serviceId = req[p].serviceId
          /\ sent'.code = 500
          /\ sent'.body = [error |-> ErrNotFound]]_vars

\* C27 witness: the last answer is the failed commit of a run whose document
\* had been deleted, and the ledger is empty.
C27_Witness ==
  /\ sent.code = 500 /\ sent.body.error = ErrNotFound
  /\ sent.serviceId = "aws"
  /\ DOMAIN costs = {}

\* ============================== collection of days with credits
\* The entries collectAWSCosts builds when Cost Explorer reports a day of
\* usage and a day whose credits exceed its usage: totalCost is the plain sum
\* of the amounts. Every entry a collector returns has a timestamp (an
\* unparseable date makes the collector itself throw).
AwsCreditEntries ==
  { [serviceId |-> "aws", timestamp |-> <<"d1", "T", "00">>, totalCost |-> 1],
    [serviceId |-> "aws", timestamp |-> <<"d2", "T", "00">>, totalCost |-> 0 - 1] }

AwsCreditResults ==
  { [costs |-> b, count |-> Len(b)] : b \in SeqsUpTo(AwsCreditEntries, MaxBatch) }

\* The collector returns and firestore.getAll(...) answers, as in
\* CollectAndCheck; no entry is looked at beyond its timestamp.
CollectAndCheckCredits(p, result) ==
  /\ req[p].pc = "collect"
  /\ req[p].serviceId = "aws"
  /\ result \in AwsCreditResults
  /\ req' = [req EXCEPT ![p].pc = "commit",
                        ![p].result = result,
                        ![p].docIdsToCheck =
                          DocIdsToCheck(req[p].serviceId, result.costs),
                        ![p].existingDocIds =
                          ExistingDocIds(costs, req[p].serviceId, result.costs)]
  /\ UNCHANGED <<services, schedules, credentials, costs, collection_status, sent, now, attempts>>

NextValidation ==
  \E p \in Procs :
    \/ StartOk(p, "aws")
    \/ \E result \in AwsCreditResults : CollectAndCheckCredits(p, result)
    \/ CommitFails(p)
    \/ Commit(p)
    \/ RecordSuccess(p)

SpecValidation == InitDelete /\ [][NextValidation]_vars

\* A well-formed entry: a timestamp and no negative cost.
WellFormed(cost) ==
  /\ "timestamp" \in DOMAIN cost
  /\ cost.totalCost >= 0
  /\ "resources" \in DOMAIN cost =>
       \A i \in DOMAIN cost.resources : cost.resources[i].cost >= 0

\* C23 (as claimed). Per-entry validation: when a batch with a malformed
\* entry commits, its well-formed entries are in the ledger, no malformed
\* entry is, and the run counts the well-formed entries only.
C23_PerEntryValidation ==
  [][\A p \in Procs :
       CommitStep(p) =>
         LET batch == req[p].result.costs
             good  == SelectSeq(batch, WellFormed)
         IN  /\ HoldsBatch(costs', req[p].serviceId, good)
             /\ \A i \in DOMAIN batch :
                  ~WellFormed(batch[i]) =>
                    \/ DocId(req[p].serviceId, batch[i]) \notin DOMAIN costs'
                    \/ costs'[DocId(req[p].serviceId, batch[i])].totalCost
                         # batch[i].totalCost
             /\ req'[p].newRecords + req'[p].updatedRecords = Len(good)]_vars

\* =========================================== GET /api/costs/anomalies
\* ------------------------------------------------------------- bounds
\* Most documents of the analysed service in the ledger.
MaxWindow == 9
\* Days of history of each of the other services in a busy ledger.
OtherDays == 11
\* Anomaly queries answered over a run of the model.
MaxQueries == 1

\* ------------------------------------------------------------- values
\* limit(60) of the query.
QueryLimit == 60
\* `costs.length < 7`, the floor of the detector.
MinEntries == 7
\* slice(-8, -1): the start and the end of recentCosts, from the end.
SliceFrom == 8
SliceTo == 1
\* The default of the `threshold` query parameter.
DefaultThreshold == 50
\* `percentChange > 100`, the severity tier.
HighSeverityPercent == 100

\* The day and the hour tokens of ISO timestamps, in calendar order.
DayNames ==
  << "d01", "d02", "d03", "d04", "d05", "d06", "d07", "d08", "d09", "d10",
     "d11", "d12", "d13" >>
HourNames == << "00", "01", "02", "03", "04", "05" >>

\* The place of each token in the calendar.
DayNumber ==
  [ d01 |-> 1, d02 |-> 2, d03 |-> 3, d04 |-> 4, d05 |-> 5, d06 |-> 6, d07 |-> 7,
    d08 |-> 8, d09 |-> 9, d10 |-> 10, d11 |-> 11, d12 |-> 12, d13 |-> 13 ]
HourNumber ==
  [ i \in {"00", "01", "02", "03", "04", "05"} |->
      CHOOSE h \in 0..5 : HourNames[h + 1] = i ]

\* new Date(timestamp), in hours since the calendar's start.
DateOf(ts) ==
  DayNumber[ts[1]] * 24 + HourNumber[ts[3]]

\* A JavaScript number that is no integer is kept as an exact fraction in
\* lowest terms, with a positive denominator.
RECURSIVE GCD(_, _)
GCD(a, b) == IF b = 0 THEN a ELSE GCD(b, a % b)

Rat(n, d) ==
  LET g == GCD(IF n < 0 THEN 0 - n ELSE n, d)
  IN  [num |-> n \div g, den |-> d \div g]

\* Mutant of RatGreater: a >= b.
RatAtLeast(a, b) == a.num >= b * a.den

\* a > b, for a fraction a with a positive denominator and an integer b.
RatGreater(a, b) == a.num > b * a.den

\* n / d rounded to the nearest integer, halves away from zero.
RoundDiv(n, d) ==
  IF n >= 0 THEN (2 * n + d) \div (2 * d)
            ELSE 0 - ((2 * (0 - n) + d) \div (2 * d))

\* Number.prototype.toFixed(2) and toFixed(1): the value in hundredths, and
\* in tenths.
ToFixed2(a) == RoundDiv(a.num * 100, a.den)
ToFixed1(a) == RoundDiv(a.num * 10, a.den)

\* `resource.resourceId || resource.name`.
ResourceKey(resource) ==
  IF "resourceId" \in DOMAIN resource /\ resource.resourceId # ""
  THEN resource.resourceId
  ELSE resource.name

\* What the grouping keeps of a document: timestamp, `totalCost || 0`,
\* `resources || []`.
GroupEntry(data) ==
  [ timestamp |-> data.timestamp,
    totalCost |-> IF "totalCost" \in DOMAIN data THEN data.totalCost ELSE 0,
    resources |-> IF "resources" \in DOMAIN data THEN data.resources ELSE << >> ]

\* orderBy('timestamp', 'desc'): a set of documents, the latest first. A
\* document's place is one more than the number of documents later than it.
OrderByTimestampDesc(docs) ==
  LET dated  == { <<DateOf(d.timestamp), d>> : d \in docs }
      placed == { <<Cardinality({ q \in dated : q[1] > p[1] }) + 1, p[2]>> :
                    p \in dated }
  IN  [i \in 1..Cardinality(docs) |-> (CHOOSE p \in placed : p[1] = i)[2]]

\* limit(n).
Limit(ordered, n) ==
  SubSeq(ordered, 1, IF Len(ordered) <= n THEN Len(ordered) ELSE n)

\* The query of the handler: every document, or those of one service, the
\* latest first, sixty at most.
QuerySnapshot(ledger, serviceId) ==
  LET all  == { ledger[id] : id \in DOMAIN ledger }
      docs == IF serviceId = NoServiceId
              THEN all
              ELSE { d \in all : d.serviceId = serviceId }
  IN  Limit(OrderByTimestampDesc(docs), QueryLimit)

\* The keys of costsByService, in the order Object.entries lists them: the
\* order in which the snapshot first shows each service.
ServicesInOrder(snapshot) ==
  LET serviceKeys == { snapshot[i].serviceId : i \in DOMAIN snapshot }
      first == [svcId \in serviceKeys |->
                  CHOOSE i \in DOMAIN snapshot :
                    /\ snapshot[i].serviceId = svcId
                    /\ \A j \in 1..(i - 1) : snapshot[j].serviceId # svcId]
  IN  [k \in 1..Cardinality(serviceKeys) |->
         CHOOSE svcId \in serviceKeys :
           Cardinality({ t \in serviceKeys : first[t] < first[svcId] }) = k - 1]

\* costsByService[svcId]: the entries of the service, in snapshot order.
CostsOfService(snapshot, svcId) ==
  LET docs == SelectSeq(snapshot, LAMBDA d : d.serviceId = svcId)
  IN  [i \in DOMAIN docs |-> GroupEntry(docs[i])]

\* costs.sort((a, b) => new Date(a.timestamp) - new Date(b.timestamp)): a
\* stable sort, ascending.
RECURSIVE InsertByTimestamp(_, _)
InsertByTimestamp(sorted, e) ==
  IF sorted = << >>
  THEN <<e>>
  ELSE IF DateOf(e.timestamp) < DateOf(Head(sorted).timestamp)
       THEN <<e>> \o sorted
       ELSE <<Head(sorted)>> \o InsertByTimestamp(Tail(sorted), e)

\* Mutant of SortByTimestamp: the entries are taken as they come.
SortSkipped(entries) == entries

RECURSIVE SortByTimestamp(_)
SortByTimestamp(entries) ==
  IF entries = << >>
  THEN << >>
  ELSE InsertByTimestamp(SortByTimestamp(SubSeq(entries, 1, Len(entries) - 1)),
                         entries[Len(entries)])

\* Mutant of SliceFromEnd: slice(-from), which runs to the last entry.
SliceFromEndThroughLast(entries, from, to) ==
  LET start == IF Len(entries) - from < 0 THEN 0 ELSE Len(entries) - from
  IN  SubSeq(entries, start + 1, Len(entries))

\* Array.prototype.slice(-from, -to).
SliceFromEnd(entries, from, to) ==
  LET start == IF Len(entries) - from < 0 THEN 0 ELSE Len(entries) - from
      end   == IF Len(entries) - to < 0 THEN 0 ELSE Len(entries) - to
  IN  SubSeq(entries, start + 1, end)

\* reduce((sum, c) => sum + c.totalCost, 0).
RECURSIVE SumTotalCost(_)
SumTotalCost(entries) ==
  IF entries = << >> THEN 0
  ELSE Head(entries).totalCost + SumTotalCost(Tail(entries))

\* Mutant of PercentChange: a cost above a zero average counts as an increase
\* of 100 percent.
PercentChangeFromZeroIsFull(current, avg) ==
  IF avg.num > 0
  THEN Rat((current * avg.den - avg.num) * 100, avg.num)
  ELSE Rat(IF current > 0 THEN 100 ELSE 0, 1)

\* avg > 0 ? ((current - avg) / avg) * 100 : 0, for avg = total / count.
PercentChange(current, avg) ==
  IF avg.num > 0
  THEN Rat((current * avg.den - avg.num) * 100, avg.num)
  ELSE Rat(0, 1)

\* Mutant of Severity: high from 100 percent on.
SeverityFromHundred(percent) ==
  IF percent.num >= HighSeverityPercent * percent.den THEN "high" ELSE "medium"

\* `percent > 100 ? 'high' : 'medium'`.
Severity(percent) ==
  IF RatGreater(percent, HighSeverityPercent) THEN "high" ELSE "medium"

\* ------------------------------------------------ the detector's passes
\* The resource rows of the baseline entries, in the order the two nested
\* forEach visit them.
RECURSIVE ResourceRows(_)
ResourceRows(entries) ==
  IF entries = << >> THEN << >>
  ELSE Head(entries).resources \o ResourceRows(Tail(entries))

\* `resource.cost || 0`.
CostOrZero(resource) ==
  IF "cost" \in DOMAIN resource THEN resource.cost ELSE 0

\* avgResourceCosts: per key, the total and the count over the rows carrying
\* the key, and the name and type of the first of them.
RECURSIVE AvgResourceCosts(_, _)
AvgResourceCosts(rows, acc) ==
  IF rows = << >>
  THEN acc
  ELSE LET resource == Head(rows)
           key      == ResourceKey(resource)
           old      == IF key \in DOMAIN acc
                       THEN acc[key]
                       ELSE [ total |-> 0, count |-> 0,
                              name |-> resource.name, type |-> resource.type ]
           new      == [old EXCEPT !.total = @ + CostOrZero(resource),
                                   !.count = @ + 1]
       IN  AvgResourceCosts(Tail(rows), (key :> new) @@ acc)

\* The cost_spike event of a service.
CostSpike(svcId, today, avgCost, percentChange) ==
  [ serviceId |-> svcId,
    type |-> "cost_spike",
    severity |-> Severity(percentChange),
    currentCost |-> today.totalCost,
    averageCost |-> avgCost,
    percentChange |-> ToFixed2(percentChange),
    timestamp |-> today.timestamp,
    message |-> << ToFixed1(percentChange), ToFixed2(avgCost),
                   ToFixed2(Rat(today.totalCost, 1)) >> ]

\* The resource_spike event of a row of today's entry.
ResourceSpike(svcId, today, resource, avgResourceCost, resourcePercentChange) ==
  [ serviceId |-> svcId,
    type |-> "resource_spike",
    severity |-> Severity(resourcePercentChange),
    resourceId |-> ResourceKey(resource),
    resourceName |-> resource.name,
    resourceType |-> resource.type,
    currentCost |-> resource.cost,
    averageCost |-> avgResourceCost,
    percentChange |-> ToFixed2(resourcePercentChange),
    timestamp |-> today.timestamp,
    message |-> << ToFixed1(resourcePercentChange), ToFixed2(avgResourceCost),
                   ToFixed2(Rat(resource.cost, 1)) >> ]

\* Mutant of ResourceSpikes: a resource without baseline rows is compared
\* with an average of 0.
RECURSIVE ResourceSpikesNewFromZero(_, _, _, _, _)
ResourceSpikesNewFromZero(svcId, today, todayResources, avgResourceCosts, thresholdPercent) ==
  IF todayResources = << >>
  THEN << >>
  ELSE LET resource == Head(todayResources)
           key      == ResourceKey(resource)
           rest     == ResourceSpikesNewFromZero(svcId, today, Tail(todayResources),
                                                 avgResourceCosts, thresholdPercent)
           avgResourceCost ==
             IF key \in DOMAIN avgResourceCosts /\ avgResourceCosts[key].count > 0
             THEN Rat(avgResourceCosts[key].total, avgResourceCosts[key].count)
             ELSE Rat(0, 1)
           resourcePercentChange == PercentChange(resource.cost, avgResourceCost)
       IN  IF RatGreater(resourcePercentChange, thresholdPercent)
           THEN << ResourceSpike(svcId, today, resource, avgResourceCost,
                                 resourcePercentChange) >> \o rest
           ELSE rest

\* todayResources.forEach: the events of the rows of today's entry, in order.
RECURSIVE ResourceSpikes(_, _, _, _, _)
ResourceSpikes(svcId, today, todayResources, avgResourceCosts, thresholdPercent) ==
  IF todayResources = << >>
  THEN << >>
  ELSE LET resource == Head(todayResources)
           key      == ResourceKey(resource)
           rest     == ResourceSpikes(svcId, today, Tail(todayResources),
                                      avgResourceCosts, thresholdPercent)
       IN  IF key \in DOMAIN avgResourceCosts /\ avgResourceCosts[key].count > 0
           THEN LET avgData == avgResourceCosts[key]
                    avgResourceCost == Rat(avgData.total, avgData.count)
                    resourcePercentChange ==
                      PercentChange(resource.cost, avgResourceCost)
                IN  IF RatGreater(resourcePercentChange, thresholdPercent)
                    THEN << ResourceSpike(svcId, today, resource, avgResourceCost,
                                          resourcePercentChange) >> \o rest
                    ELSE rest
           ELSE rest

\* Mutant of AnalyseService: the resource pass is skipped once the service's
\* cost_spike has been pushed.
AnalyseServiceSpikeEndsPass(svcId, entries, thresholdPercent) ==
  LET costsSorted == SortByTimestamp(entries)
      recentCosts == SliceFromEnd(costsSorted, SliceFrom, SliceTo)
      today       == costsSorted[Len(costsSorted)]
      avgCost     == Rat(SumTotalCost(recentCosts), Len(recentCosts))
      percentChange == PercentChange(today.totalCost, avgCost)
  IN  IF Len(costsSorted) < MinEntries
      THEN [ costs |-> costsSorted, analysed |-> FALSE, avgCost |-> Rat(0, 1),
             percentChange |-> Rat(0, 1), anomalies |-> << >> ]
      ELSE [ costs |-> costsSorted, analysed |-> TRUE, avgCost |-> avgCost,
             percentChange |-> percentChange,
             anomalies |->
               IF RatGreater(percentChange, thresholdPercent)
               THEN << CostSpike(svcId, today, avgCost, percentChange) >>
               ELSE ResourceSpikes(svcId, today, today.resources,
                      AvgResourceCosts(ResourceRows(recentCosts), << >>),
                      thresholdPercent) ]

\* The callback of Object.entries(costsByService).forEach for one service:
\* the sorted entries, whether the floor let the analysis run, the locals
\* avgCost and percentChange, and the events pushed.
AnalyseService(svcId, entries, thresholdPercent) ==
  LET costsSorted == SortByTimestamp(entries)
      recentCosts == SliceFromEnd(costsSorted, SliceFrom, SliceTo)
      today       == costsSorted[Len(costsSorted)]
      avgCost     == Rat(SumTotalCost(recentCosts), Len(recentCosts))
      percentChange == PercentChange(today.totalCost, avgCost)
  IN  IF Len(costsSorted) < MinEntries
      THEN [ costs |-> costsSorted, analysed |-> FALSE, avgCost |-> Rat(0, 1),
             percentChange |-> Rat(0, 1), anomalies |-> << >> ]
      ELSE [ costs |-> costsSorted, analysed |-> TRUE, avgCost |-> avgCost,
             percentChange |-> percentChange,
             anomalies |->
               (IF RatGreater(percentChange, thresholdPercent)
                THEN << CostSpike(svcId, today, avgCost, percentChange) >>
                ELSE << >>)
               \o ResourceSpikes(svcId, today, today.resources,
                    AvgResourceCosts(ResourceRows(recentCosts), << >>),
                    thresholdPercent) ]

\* The events of the services of costsByService, one service after the other.
RECURSIVE AnomaliesOf(_, _)
AnomaliesOf(serviceKeys, analysis) ==
  IF serviceKeys = << >> THEN << >>
  ELSE analysis[Head(serviceKeys)].anomalies \o AnomaliesOf(Tail(serviceKeys), analysis)

\* `threshold = 50` of the destructured query, then parseFloat: the query
\* carries no threshold (<< >>) or one number.
ThresholdPercent(threshold) ==
  IF threshold = << >> THEN DefaultThreshold ELSE threshold[1]

\* ------------------------------------------------------ ledgers analysed
\* The service whose window varies, and the other services of a busy ledger,
\* each collected at an hour of its own.
AnalysedService == "gcp"
OtherServices == << "aws", "atlassian", "chatgpt", "cohere", "google-workspace" >>

\* Daily totals of a window, by distance from today: today, the day before,
\* the days between, the first day of the last eight, the days before it.
CostProfiles ==
  { [today |-> t, last |-> l, mid |-> b, first |-> f, older |-> o] :
      t \in {1, 2, 5}, l \in {1, 5}, b \in {1, 2}, f \in {1, 5}, o \in {0, 5} }
  \cup { [today |-> t, last |-> 0, mid |-> 0, first |-> 0, older |-> o] :
           t \in {0, 5}, o \in {0, 5} }
  \cup { [today |-> t, last |-> 2, mid |-> 2, first |-> 2, older |-> 0] :
           t \in {2, 3, 5} }
  \cup { [today |-> t, last |-> 10, mid |-> 10, first |-> 10, older |-> 0] :
           t \in {15, 16, 21} }

\* The totals used under the windows that list resources.
ResourceCostProfiles ==
  { [today |-> t, last |-> 1, mid |-> 1, first |-> 1, older |-> 0] : t \in {1, 5} }

TotalCostAt(profile, back) ==
  CASE back = 0 -> profile.today
    [] back = 1 -> profile.last
    [] back = SliceFrom - 1 -> profile.first
    [] back >= SliceFrom -> profile.older
    [] OTHER -> profile.mid

\* A resource row as the collectors build it; the anthropic collector's rows
\* of one name fall under one key too.
ResourceRow(id, cost) ==
  [resourceId |-> id, name |-> id, type |-> "GCP Service", cost |-> cost]
NamedRow(name, cost) ==
  [name |-> name, type |-> "GCP Service", cost |-> cost]

\* The resources of a window: how many of the days before today (counted
\* back from yesterday) list the resource r1, in how many rows a day, at what
\* cost a row, and the rows of today.
ResourceProfiles ==
  { [listed |-> d, rows |-> n, cost |-> c, today |-> rows] :
      d \in {0, 1, SliceFrom - 1}, n \in {1, 2}, c \in {0, 1},
      rows \in { << ResourceRow("r1", 1) >>, << ResourceRow("r1", 2) >>,
                 << ResourceRow("r1", 5) >>,
                 << ResourceRow("r1", 2), ResourceRow("r2", 5) >>,
                 << NamedRow("r1", 5) >> } }

NoResources == [listed |-> 0, rows |-> 1, cost |-> 0, today |-> << >>]

ResourcesAt(rp, back) ==
  IF back = 0 THEN rp.today
  ELSE IF back <= rp.listed
       THEN [i \in 1..rp.rows |-> ResourceRow("r1", rp.cost)]
       ELSE << >>

\* The document of a service for a day, as a collection run stores it.
CostDoc(svcId, day, hour, totalCost, resources) ==
  [ serviceId |-> svcId,
    timestamp |-> << DayNames[day], "T", HourNames[hour] >>,
    totalCost |-> totalCost,
    resources |-> resources ]

\* The documents of the analysed service: len consecutive days.
WindowDocs(len, profile, rp) ==
  { CostDoc(AnalysedService, day, 1, TotalCostAt(profile, len - day),
            ResourcesAt(rp, len - day)) : day \in 1..len }

\* The documents of the other services: days consecutive days each, stored
\* without a resources field.
OtherDocs(days) ==
  { [ serviceId |-> OtherServices[i],
      timestamp |-> << DayNames[day], "T", HourNames[i + 1] >>,
      totalCost |-> 1 ] :
      i \in DOMAIN OtherServices, day \in 1..days }

\* The ledger holding a set of documents, each under its document id.
LedgerOf(docs) ==
  [ id \in { DocId(d.serviceId, d) : d \in docs } |->
      CHOOSE d \in docs : DocId(d.serviceId, d) = id ]

\* The ledgers analysed: the analysed service alone, with every profile of
\* totals and then of resources; and, for a few profiles, a ledger busy with
\* the other services.
BusyCostProfiles ==
  { [today |-> 5, last |-> 1, mid |-> 1, first |-> f, older |-> 0] : f \in {1, 5} }

AnomalyLedgers ==
  { LedgerOf(WindowDocs(len, profile, NoResources)) :
      len \in 0..MaxWindow, profile \in CostProfiles }
  \cup
  { LedgerOf(WindowDocs(len, profile, rp)) :
      len \in {MinEntries, SliceFrom}, profile \in ResourceCostProfiles,
      rp \in ResourceProfiles }
  \cup
  { LedgerOf(WindowDocs(len, profile, NoResources) \cup OtherDocs(OtherDays)) :
      len \in SliceFrom..MaxWindow, profile \in BusyCostProfiles }

\* threshold and serviceId of the query string.
Thresholds == { << >>, << 0 - 50 >>, << 0 >>, << 100 >> }
ServiceFilters == { NoServiceId, AnalysedService }

\* ------------------------------------------------------- the handler
InitAnomalies ==
  /\ costs \in AnomalyLedgers
  /\ credentials = [s \in ServiceIds |-> NoDoc]
  /\ collection_status = << >>
  /\ req = [p \in Procs |-> IdleReq]
  /\ sent = NoResponse
  /\ now = 1
  /\ attempts = 0
  /\ services = << >>
  /\ schedules = << >>

\* The handler's answer, with the locals it was computed from.
AnomalyResponse(serviceId, thresholdPercent, analysis, anomalies) ==
  [ serviceId |-> serviceId, code |-> 200,
    body |-> [anomalies |-> anomalies, count |-> Len(anomalies)],
    statusWrites |-> 0,
    thresholdPercent |-> thresholdPercent,
    analysis |-> analysis ]

\* Lines 570-658 on a snapshot: the grouping, the analysis of each service
\* and the events pushed, service after service. An empty snapshot is
\* answered before them, with no event.
DetectAnomalies(snapshot, thresholdPercent) ==
  IF snapshot = << >>
  THEN [analysis |-> << >>, anomalies |-> << >>]
  ELSE LET serviceKeys == ServicesInOrder(snapshot)
           analysis ==
             [ svcId \in { serviceKeys[i] : i \in DOMAIN serviceKeys } |->
                 AnalyseService(svcId, CostsOfService(snapshot, svcId),
                                thresholdPercent) ]
       IN  [analysis |-> analysis, anomalies |-> AnomaliesOf(serviceKeys, analysis)]

\* GET /api/costs/anomalies?serviceId=..&threshold=..
GetAnomalies(serviceId, threshold) ==
  LET thresholdPercent == ThresholdPercent(threshold)
      detected == DetectAnomalies(QuerySnapshot(costs, serviceId), thresholdPercent)
  IN  /\ attempts < MaxQueries
      /\ attempts' = attempts + 1
      /\ sent' = AnomalyResponse(serviceId, thresholdPercent, detected.analysis,
                                 detected.anomalies)
      /\ UNCHANGED <<services, schedules, credentials, costs, collection_status, req, now>>

\* The query is rejected: the catch block answers 500.
GetAnomaliesFails(serviceId) ==
  /\ attempts < MaxQueries
  /\ attempts' = attempts + 1
  /\ sent' = [ serviceId |-> serviceId, code |-> 500,
               body |-> [error |-> ErrStoreRead], statusWrites |-> 0 ]
  /\ UNCHANGED <<services, schedules, credentials, costs, collection_status, req, now>>

NextAnomalies ==
  \/ \E serviceId \in ServiceFilters, threshold \in Thresholds :
       GetAnomalies(serviceId, threshold)
  \/ \E serviceId \in ServiceFilters : GetAnomaliesFails(serviceId)

SpecAnomalies == InitAnomalies /\ [][NextAnomalies]_vars

\* ------------------------------------- claims about the anomaly detector
\* The last answer is one of the detector, with the locals behind it.
AnomaliesAnswered ==
  sent.code = 200 /\ "analysis" \in DOMAIN sent

\* The places, in the answer, of the events of a type for a service.
EventsOf(svcId, type) ==
  { j \in DOMAIN sent.body.anomalies :
      /\ sent.body.anomalies[j].serviceId = svcId
      /\ sent.body.anomalies[j].type = type }

\* The sum of totalCost over the entries at places lo..hi of a window.
RECURSIVE SumTotalsAt(_, _, _)
SumTotalsAt(window, lo, hi) ==
  IF lo > hi THEN 0
  ELSE window[lo].totalCost + SumTotalsAt(window, lo + 1, hi)

\* C12 (as claimed). Anomaly floor: a service with fewer than 8 entries in
\* its window (fewer than 7 before the most recent one) gets no event,
\* whatever the costs and the threshold (taken here from 0 up).
C12_AnomalyFloor ==
  (AnomaliesAnswered /\ sent.thresholdPercent >= 0) =>
    \A svcId \in DOMAIN sent.analysis :
      Len(sent.analysis[svcId].costs) < 8 =>
        \A j \in DOMAIN sent.body.anomalies :
          sent.body.anomalies[j].serviceId # svcId

\* C13. Baseline window: for a service whose window, ascending by timestamp,
\* has len >= 8 entries, the average the detector works with is the sum of
\* totalCost over the seven entries before the last one (places len-7..len-1
\* counting from 1) divided by 7, and it is the averageCost of the service's
\* cost_spike event.
C13_BaselineWindow ==
  AnomaliesAnswered =>
    \A svcId \in DOMAIN sent.analysis :
      LET window == sent.analysis[svcId].costs
          len    == Len(window)
          total  == SumTotalsAt(window, len - 7, len - 1)
      IN  len >= 8 =>
            /\ \A i \in 1..(len - 1) :
                 DateOf(window[i].timestamp) < DateOf(window[i + 1].timestamp)
            /\ sent.analysis[svcId].analysed
            /\ sent.analysis[svcId].avgCost.num * 7
                 = total * sent.analysis[svcId].avgCost.den
            /\ \A j \in EventsOf(svcId, "cost_spike") :
                 sent.body.anomalies[j].averageCost.num * 7
                   = total * sent.body.anomalies[j].averageCost.den

\* C13 witness: a window of nine entries whose oldest entry (5) and last
\* entry (5) differ from the seven between them (1 each): the average is 1
\* and the cost_spike event carries it.
C13_Witness ==
  /\ AnomaliesAnswered
  /\ AnalysedService \in DOMAIN sent.analysis
  /\ LET window == sent.analysis[AnalysedService].costs
     IN  /\ Len(window) = 9
         /\ window[1].totalCost = 5 /\ window[9].totalCost = 5
         /\ \A i \in 2..8 : window[i].totalCost = 1
  /\ sent.analysis[AnalysedService].avgCost = [num |-> 1, den |-> 1]
  /\ \E j \in EventsOf(AnalysedService, "cost_spike") :
       sent.body.anomalies[j].averageCost = [num |-> 1, den |-> 1]

\* The window of a service in the last answer and its last entry.
WindowOf(svcId) == sent.analysis[svcId].costs
TodayOf(svcId) == WindowOf(svcId)[Len(WindowOf(svcId))]

\* The services the floor let through.
AnalysedServices ==
  { svcId \in DOMAIN sent.analysis : sent.analysis[svcId].analysed }

\* (current - avg) / avg * 100 > percent, for a positive avg = num / den,
\* in integers.
ChangeExceeds(current, avg, percent) ==
  (current * avg.den - avg.num) * 100 > percent * avg.num

\* C14. Threshold boundary: for a service with a positive baseline average
\* the answer holds a cost_spike event (one) if and only if
\* (today - avg) / avg * 100 is strictly greater than the threshold; at
\* average 10, today 15 and threshold 50 there is none.
C14_ThresholdBoundary ==
  AnomaliesAnswered =>
    \A svcId \in AnalysedServices :
      LET avg == sent.analysis[svcId].avgCost
      IN  avg.num > 0 =>
            /\ Cardinality(EventsOf(svcId, "cost_spike")) =
                 (IF ChangeExceeds(TodayOf(svcId).totalCost, avg, sent.thresholdPercent)
                  THEN 1 ELSE 0)
            /\ ( /\ avg = [num |-> 10, den |-> 1]
                 /\ TodayOf(svcId).totalCost = 15
                 /\ sent.thresholdPercent = 50 )
               => EventsOf(svcId, "cost_spike") = {}

\* C14 witness: average 10 over the seven days before, 15 today, threshold
\* 50, and no event in the answer.
C14_Witness ==
  /\ AnomaliesAnswered
  /\ AnalysedService \in AnalysedServices
  /\ Len(WindowOf(AnalysedService)) >= 8
  /\ sent.analysis[AnalysedService].avgCost = [num |-> 10, den |-> 1]
  /\ TodayOf(AnalysedService).totalCost = 15
  /\ sent.thresholdPercent = 50
  /\ sent.body.anomalies = << >>

\* C15. Severity tiers: every event of the answer, cost_spike or
\* resource_spike, is 'high' exactly when its cost is more than 100 percent
\* above its average and 'medium' otherwise; the window 1,1,1,1,1,1,1,5 at
\* threshold 50 gives one cost_spike, with percentChange 400.00 and severity
\* high.
C15_SeverityTiers ==
  AnomaliesAnswered =>
    /\ \A j \in DOMAIN sent.body.anomalies :
         LET e == sent.body.anomalies[j]
         IN  e.severity =
               (IF e.averageCost.num > 0
                   /\ ChangeExceeds(e.currentCost, e.averageCost, 100)
                THEN "high" ELSE "medium")
    /\ \A svcId \in AnalysedServices :
         ( /\ Len(WindowOf(svcId)) = 8
           /\ \A i \in 1..7 : WindowOf(svcId)[i].totalCost = 1
           /\ TodayOf(svcId).totalCost = 5
           /\ sent.thresholdPercent = 50 )
         => /\ Cardinality(EventsOf(svcId, "cost_spike")) = 1
            /\ \A j \in EventsOf(svcId, "cost_spike") :
                 /\ sent.body.anomalies[j].percentChange = 40000
                 /\ sent.body.anomalies[j].severity = "high"

\* C15 witness: the window 1,1,1,1,1,1,1,5 without resources, answered at
\* threshold 50 with its one event.
C15_Witness ==
  /\ AnomaliesAnswered
  /\ sent.thresholdPercent = 50
  /\ AnalysedService \in AnalysedServices
  /\ Len(WindowOf(AnalysedService)) = 8
  /\ \A i \in 1..7 : WindowOf(AnalysedService)[i].totalCost = 1
  /\ TodayOf(AnalysedService).totalCost = 5
  /\ Len(sent.body.anomalies) = 1
  /\ sent.body.anomalies[1].type = "cost_spike"
  /\ sent.body.anomalies[1].percentChange = 40000
  /\ sent.body.anomalies[1].severity = "high"

\* The places of a window the baseline is taken from: the seven before the
\* last one, or all before the last one when there are fewer.
BaselinePlaces(window) ==
  { i \in 1..(Len(window) - 1) : i >= Len(window) - 7 }

\* The resource rows of the baseline that carry a key, each as <<place of the
\* entry, place of the row>>, and the places of the entries listing the key.
BaselineRows(window, key) ==
  UNION { { <<i, r>> : r \in { q \in DOMAIN window[i].resources :
                                 ResourceKey(window[i].resources[q]) = key } } :
          i \in BaselinePlaces(window) }
BaselineDays(window, key) ==
  { i \in BaselinePlaces(window) :
      \E r \in DOMAIN window[i].resources :
        ResourceKey(window[i].resources[r]) = key }

\* The sum of the cost of a set of rows.
RECURSIVE SumRows(_, _)
SumRows(window, rows) ==
  IF rows = {} THEN 0
  ELSE LET row == CHOOSE x \in rows : TRUE
       IN  window[row[1]].resources[row[2]].cost + SumRows(window, rows \ {row})

\* The keys of the rows of today's entry of a service.
TodayKeys(svcId) ==
  { ResourceKey(TodayOf(svcId).resources[r]) : r \in DOMAIN TodayOf(svcId).resources }

\* The places, in the answer, of the resource_spike events of a key.
ResourceEventsOf(svcId, key) ==
  { j \in EventsOf(svcId, "resource_spike") : sent.body.anomalies[j].resourceId = key }

\* C16. Zero-baseline safety: when the baseline average of a service is 0 its
\* percentChange is 0, and at a threshold of 0 or more it gets no cost_spike;
\* a resource of today's entry whose baseline rows sum to 0 gets no
\* resource_spike, whatever today's cost.
C16_ZeroBaseline ==
  AnomaliesAnswered =>
    \A svcId \in AnalysedServices :
      /\ sent.analysis[svcId].avgCost.num = 0 =>
           /\ sent.analysis[svcId].percentChange = [num |-> 0, den |-> 1]
           /\ sent.thresholdPercent >= 0 => EventsOf(svcId, "cost_spike") = {}
      /\ \A key \in TodayKeys(svcId) :
           ( /\ BaselineRows(WindowOf(svcId), key) # {}
             /\ SumRows(WindowOf(svcId), BaselineRows(WindowOf(svcId), key)) = 0
             /\ sent.thresholdPercent >= 0 )
           => ResourceEventsOf(svcId, key) = {}

\* C16 witness: seven days at 0 and 5 today, asked at threshold 0: no event.
C16_Witness ==
  /\ AnomaliesAnswered
  /\ sent.thresholdPercent = 0
  /\ AnalysedService \in AnalysedServices
  /\ Len(WindowOf(AnalysedService)) >= 8
  /\ sent.analysis[AnalysedService].avgCost = [num |-> 0, den |-> 1]
  /\ TodayOf(AnalysedService).totalCost = 5
  /\ sent.body.anomalies = << >>

\* C19. The resource pass does not depend on the service's own event: for
\* each key of today's rows with a positive baseline average (the sum of the
\* baseline rows of the key over their number, as the pass takes it), the
\* answer holds one resource_spike per row of today whose cost exceeds that
\* average by more than the threshold, and none for the other rows, whether
\* a cost_spike was pushed for the service or not.
C19_ResourcePassIndependent ==
  AnomaliesAnswered =>
    \A svcId \in AnalysedServices :
      \A key \in TodayKeys(svcId) :
        LET rows  == BaselineRows(WindowOf(svcId), key)
            avg   == [num |-> SumRows(WindowOf(svcId), rows), den |-> Cardinality(rows)]
            today == TodayOf(svcId).resources
        IN  avg.num > 0 =>
              Cardinality(ResourceEventsOf(svcId, key)) =
                Cardinality({ r \in DOMAIN today :
                                /\ ResourceKey(today[r]) = key
                                /\ ChangeExceeds(today[r].cost, avg, sent.thresholdPercent) })

\* C19 witness: an answer with the service's cost_spike and, after it, the
\* resource_spike of one of today's rows.
C19_Witness ==
  /\ AnomaliesAnswered
  /\ sent.thresholdPercent = 50
  /\ EventsOf(AnalysedService, "cost_spike") # {}
  /\ ResourceEventsOf(AnalysedService, "r1") # {}

\* C20 (as claimed). Per-resource baseline: the averageCost of a
\* resource_spike event is the sum of the resource's cost over the baseline
\* entries that list it, divided by the number of those entries (days).
C20_AveragePerListingDay ==
  AnomaliesAnswered =>
    \A svcId \in AnalysedServices :
      \A j \in EventsOf(svcId, "resource_spike") :
        LET e    == sent.body.anomalies[j]
            rows == BaselineRows(WindowOf(svcId), e.resourceId)
            days == BaselineDays(WindowOf(svcId), e.resourceId)
        IN  e.averageCost.num * Cardinality(days)
              = SumRows(WindowOf(svcId), rows) * e.averageCost.den

\* C28. A brand-new resource is not flagged: a resource of today's entry
\* that no baseline entry lists gets no resource_spike, whatever its cost and
\* the threshold.
C28_NewResourceNotFlagged ==
  AnomaliesAnswered =>
    \A svcId \in AnalysedServices :
      \A key \in TodayKeys(svcId) :
        BaselineRows(WindowOf(svcId), key) = {} => ResourceEventsOf(svcId, key) = {}

\* C28 witness: today's entry lists r1, which the baseline lists and which is
\* flagged, and r2 at cost 5, which no baseline entry lists and which is not.
C28_Witness ==
  /\ AnomaliesAnswered
  /\ AnalysedService \in AnalysedServices
  /\ {"r1", "r2"} \subseteq TodayKeys(AnalysedService)
  /\ BaselineRows(WindowOf(AnalysedService), "r1") # {}
  /\ BaselineRows(WindowOf(AnalysedService), "r2") = {}
  /\ ResourceEventsOf(AnalysedService, "r1") # {}
  /\ ResourceEventsOf(AnalysedService, "r2") = {}
  /\ \E r \in DOMAIN TodayOf(AnalysedService).resources :
       /\ ResourceKey(TodayOf(AnalysedService).resources[r]) = "r2"
       /\ TodayOf(AnalysedService).resources[r].cost = 5

\* C18 (as claimed). Cross-service isolation: the events the query over all
\* services reports for a service are the events the query restricted to
\* that service reports, at the same threshold, whatever else the ledger
\* holds.
C18_CrossServiceIsolation ==
  (AnomaliesAnswered /\ sent.serviceId = NoServiceId) =>
    \A svcId \in { costs[id].serviceId : id \in DOMAIN costs } :
      SelectSeq(sent.body.anomalies, LAMBDA e : e.serviceId = svcId)
        = DetectAnomalies(QuerySnapshot(costs, svcId), sent.thresholdPercent).anomalies

\* --------------------------------------- the detector on any arrival order
\* Lines 570-658 take the snapshot's documents one by one; here the documents
\* of a seven-day window are handed over in every order.
ArrivalProfiles ==
  { [today |-> 5, last |-> l, mid |-> 1, first |-> 1, older |-> 0] : l \in {1, 2} }

ArrivalResources ==
  { NoResources,
    [listed |-> 1, rows |-> 1, cost |-> 1, today |-> << ResourceRow("r1", 5) >>] }

\* The documents of a service in the ledger, oldest day first.
AscendingDocs(ledger, svcId) ==
  LET days == { i \in DOMAIN DayNames : <<svcId, "_", DayNames[i]>> \in DOMAIN ledger }
  IN  [i \in 1..Cardinality(days) |-> ledger[<<svcId, "_", DayNames[i]>>]]

\* A request whose query has resolved: its snapshot and threshold.
Analysing(snapshot, thresholdPercent) ==
  [ pc |-> "analyse", serviceId |-> AnalysedService,
    snapshot |-> snapshot, thresholdPercent |-> thresholdPercent ]

InitArrival ==
  /\ costs \in { LedgerOf(WindowDocs(MinEntries, profile, rp)) :
                   profile \in ArrivalProfiles, rp \in ArrivalResources }
  /\ \E order \in Permutations(1..MinEntries) :
       req = [ p \in Procs |->
                 IF p = 1
                 THEN Analysing([i \in 1..MinEntries |->
                                   AscendingDocs(costs, AnalysedService)[order[i]]],
                                DefaultThreshold)
                 ELSE IdleReq ]
  /\ credentials = [s \in ServiceIds |-> NoDoc]
  /\ collection_status = << >>
  /\ sent = NoResponse
  /\ now = 1
  /\ attempts = 0
  /\ services = << >>
  /\ schedules = << >>

\* The grouping, the analysis and the answer, on the snapshot as it came.
AnalyseArrival(p) ==
  /\ req[p].pc = "analyse"
  /\ LET detected == DetectAnomalies(req[p].snapshot, req[p].thresholdPercent)
     IN  sent' = AnomalyResponse(req[p].serviceId, req[p].thresholdPercent,
                                 detected.analysis, detected.anomalies)
  /\ req' = [req EXCEPT ![p].pc = "answered"]
  /\ UNCHANGED <<services, schedules, credentials, costs, collection_status, now, attempts>>

NextArrival == \E p \in Procs : AnalyseArrival(p)

SpecArrival == InitArrival /\ [][NextArrival]_vars

\* C17. Order independence: whatever the order in which the documents of a
\* window (distinct timestamps) arrive, the detector works on the window
\* sorted ascending by timestamp and its events are those it gives for the
\* documents arriving oldest first.
C17_OrderIndependence ==
  AnomaliesAnswered =>
    /\ \A svcId \in DOMAIN sent.analysis :
         /\ Len(WindowOf(svcId)) = Len(AscendingDocs(costs, svcId))
         /\ \A i \in DOMAIN WindowOf(svcId) :
              WindowOf(svcId)[i].timestamp = AscendingDocs(costs, svcId)[i].timestamp
    /\ sent.body.anomalies =
         DetectAnomalies(AscendingDocs(costs, sent.serviceId),
                         sent.thresholdPercent).anomalies

\* C17 witness: a snapshot that came with today's document first and the
\* oldest one second was answered with the cost_spike of today.
C17_Witness ==
  /\ AnomaliesAnswered
  /\ req[1].pc = "answered"
  /\ req[1].snapshot[1].timestamp = << DayNames[MinEntries], "T", "00" >>
  /\ req[1].snapshot[2].timestamp = << DayNames[1], "T", "00" >>
  /\ \E j \in EventsOf(AnalysedService, "cost_spike") :
       sent.body.anomalies[j].timestamp = << DayNames[MinEntries], "T", "00" >>

\* ============================================ /api/credentials/:serviceId
\* ------------------------------------------------------------- bounds
\* Credential requests accepted over a run of the model.
MaxCredentialRequests == 3

\* The service whose credentials are saved and deleted.
CredentialService == "aws"

\* The metadata document POST /api/credentials/:serviceId stores.
CredentialMetadata(serviceId) ==
  [serviceId |-> serviceId, secretName |-> serviceId]

\* docRef.set(data, { merge: true }): the given fields replace those of the
\* document, which is created when missing.
DocSetMerge(collection, id, data) ==
  (id :> (IF id \in DOMAIN collection THEN data @@ collection[id] ELSE data))
    @@ collection

InitCredentials ==
  /\ credentials = [s \in ServiceIds |-> NoDoc]
  /\ services = << >>
  /\ costs = << >>
  /\ collection_status = << >>
  /\ schedules = << >>
  /\ req = [p \in Procs |-> IdleReq]
  /\ sent = NoResponse
  /\ now = 1
  /\ attempts = 0

\* A credential request arrives and takes the first free slot.
AcceptingCredentials(p) ==
  /\ req[p].pc = "idle"
  /\ \A q \in Procs : q < p => req[q].pc # "idle"
  /\ attempts < MaxCredentialRequests
  /\ attempts' = attempts + 1

\* POST without credentials in the body.
SaveNoCredentials(p, s) ==
  /\ AcceptingCredentials(p)
  /\ Respond(p, s, 400, [error |-> "Credentials data is required"], 0)
  /\ UNCHANGED <<services, schedules, credentials, costs, collection_status, now>>

\* POST: Secret Manager throws something other than NOT_FOUND.
SaveSecretFails(p, s) ==
  /\ AcceptingCredentials(p)
  /\ Respond(p, s, 500, [error |-> ErrSecret], 0)
  /\ UNCHANGED <<services, schedules, credentials, costs, collection_status, now>>

\* POST: the secret version is stored; the metadata write comes next.
SaveStart(p, s) ==
  /\ AcceptingCredentials(p)
  /\ req' = [req EXCEPT ![p] = [IdleReq EXCEPT !.pc = "saveMetadata", !.serviceId = s]]
  /\ UNCHANGED <<services, schedules, credentials, costs, collection_status, sent, now>>

\* POST: credentials/serviceId is set.
SaveMetadata(p) ==
  /\ req[p].pc = "saveMetadata"
  /\ credentials' = [credentials EXCEPT ![req[p].serviceId] =
                       CredentialMetadata(req[p].serviceId)]
  /\ req' = [req EXCEPT ![p].pc = "enable"]
  /\ UNCHANGED <<services, schedules, costs, collection_status, sent, now, attempts>>

\* POST: services/serviceId gets enabled: true, and the answer is sent.
SaveEnable(p) ==
  /\ req[p].pc = "enable"
  /\ services' = DocSetMerge(services, req[p].serviceId,
                             [enabled |-> TRUE, updatedAt |-> now])
  /\ Respond(p, req[p].serviceId, 200, [success |-> TRUE, serviceId |-> req[p].serviceId], 0)
  /\ UNCHANGED <<schedules, credentials, costs, collection_status, now, attempts>>

\* POST: one of the two Firestore writes rejects.
SaveFails(p) ==
  /\ req[p].pc \in {"saveMetadata", "enable"}
  /\ Respond(p, req[p].serviceId, 500, [error |-> ErrStoreWrite], 0)
  /\ UNCHANGED <<services, schedules, credentials, costs, collection_status, now, attempts>>

\* DELETE: the read of the metadata document rejects.
DeleteReadFails(p, s) ==
  /\ AcceptingCredentials(p)
  /\ Respond(p, s, 500, [error |-> ErrCredRead], 0)
  /\ UNCHANGED <<services, schedules, credentials, costs, collection_status, now>>

\* DELETE: there is no metadata document; nothing is touched.
DeleteNothing(p, s) ==
  /\ AcceptingCredentials(p)
  /\ credentials[s] = NoDoc
  /\ Respond(p, s, 200, [success |-> TRUE, serviceId |-> s], 0)
  /\ UNCHANGED <<services, schedules, credentials, costs, collection_status, now>>

\* DELETE: the metadata document exists; the secret is deleted (a failure of
\* that is logged and passed over) and the metadata delete comes next.
DeleteStart(p, s) ==
  /\ AcceptingCredentials(p)
  /\ credentials[s] # NoDoc
  /\ req' = [req EXCEPT ![p] = [IdleReq EXCEPT !.pc = "deleteMetadata", !.serviceId = s]]
  /\ UNCHANGED <<services, schedules, credentials, costs, collection_status, sent, now>>

\* DELETE: credentials/serviceId is deleted.
DeleteMetadata(p) ==
  /\ req[p].pc = "deleteMetadata"
  /\ credentials' = [credentials EXCEPT ![req[p].serviceId] = NoDoc]
  /\ req' = [req EXCEPT ![p].pc = "disable"]
  /\ UNCHANGED <<services, schedules, costs, collection_status, sent, now, attempts>>

\* DELETE: services/serviceId gets enabled: false, and the answer is sent.
DeleteDisable(p) ==
  /\ req[p].pc = "disable"
  /\ services' = DocSetMerge(services, req[p].serviceId,
                             [enabled |-> FALSE, updatedAt |-> now])
  /\ Respond(p, req[p].serviceId, 200, [success |-> TRUE, serviceId |-> req[p].serviceId], 0)
  /\ UNCHANGED <<schedules, credentials, costs, collection_status, now, attempts>>

\* DELETE: one of the two Firestore writes rejects.
DeleteFails(p) ==
  /\ req[p].pc \in {"deleteMetadata", "disable"}
  /\ Respond(p, req[p].serviceId, 500, [error |-> ErrStoreWrite], 0)
  /\ UNCHANGED <<services, schedules, credentials, costs, collection_status, now, attempts>>

NextCredentials ==
  \E p \in Procs :
    \/ SaveNoCredentials(p, CredentialService)
    \/ SaveSecretFails(p, CredentialService)
    \/ SaveStart(p, CredentialService)
    \/ SaveMetadata(p)
    \/ SaveEnable(p)
    \/ SaveFails(p)
    \/ DeleteReadFails(p, CredentialService)
    \/ DeleteNothing(p, CredentialService)
    \/ DeleteStart(p, CredentialService)
    \/ DeleteMetadata(p)
    \/ DeleteDisable(p)
    \/ DeleteFails(p)

SpecCredentials == InitCredentials /\ [][NextCredentials]_vars

\* C29 (as claimed). Once every request in flight has completed, whatever
\* the interleaving of saves and deletes of a service's credentials, the
\* service document says enabled only if the credential metadata document
\* exists.
C29_EnabledOnlyWithCredentials ==
  (\A p \in Procs : req[p].pc = "idle") =>
    \A s \in DOMAIN services :
      services[s].enabled => credentials[s] # NoDoc

\* ============================================== PUT /api/schedules/:serviceId
\* The service whose schedule is updated.
ScheduleService == "aws"

\* The frequencies the handler accepts.
Frequencies == {"hourly", "daily", "weekly", "custom"}

DefaultFrequency == "daily"

\* req.body: each of enabled, frequency and customCron given or left out;
\* "monthly" is a frequency the handler does not know.
ScheduleBodies ==
  { e @@ f @@ c :
      e \in { << >>, [enabled |-> TRUE], [enabled |-> FALSE] },
      f \in { << >> } \cup { [frequency |-> x] : x \in Frequencies \cup {"monthly"} },
      c \in { << >>, [customCron |-> "0 6 * * *"] } }

InitSchedules ==
  /\ schedules = << >>
  /\ services = << >>
  /\ credentials = [s \in ServiceIds |-> NoDoc]
  /\ costs = << >>
  /\ collection_status = << >>
  /\ req = [p \in Procs |-> IdleReq]
  /\ sent = NoResponse
  /\ now = 1
  /\ attempts = 0

\* The stored schedule of a service, or NoDoc.
StoredSchedule(serviceId) ==
  IF serviceId \in DOMAIN schedules THEN schedules[serviceId] ELSE NoDoc

\* The answer to a PUT, with the body it answers and the schedule that was
\* stored when it arrived.
ScheduleResponse(serviceId, code, body, request) ==
  [ serviceId |-> serviceId, code |-> code, body |-> body, statusWrites |-> 0,
    request |-> request, stored |-> StoredSchedule(serviceId) ]

\* frequency && ![...].includes(frequency)
InvalidFrequency(body) ==
  "frequency" \in DOMAIN body /\ body.frequency \notin Frequencies

\* frequency === 'custom' && !customCron
CustomWithoutCron(body) ==
  /\ "frequency" \in DOMAIN body /\ body.frequency = "custom"
  /\ "customCron" \notin DOMAIN body

\* Mutant of ScheduleData: a field the body leaves out is left out of the
\* write, so the merge keeps the stored one.
ScheduleDataGivenOnly(serviceId, body, t) ==
  [serviceId |-> serviceId, updatedAt |-> t] @@ body

\* scheduleData
ScheduleData(serviceId, body, t) ==
  [ serviceId |-> serviceId,
    enabled   |-> IF "enabled" \in DOMAIN body THEN body.enabled ELSE TRUE,
    frequency |-> IF "frequency" \in DOMAIN body THEN body.frequency
                  ELSE DefaultFrequency,
    updatedAt |-> t ]
  @@ (IF "customCron" \in DOMAIN body
      THEN [customCron |-> body.customCron] ELSE << >>)

\* 400: a frequency the handler does not know.
PutInvalidFrequency(serviceId, body) ==
  /\ InvalidFrequency(body)
  /\ sent' = ScheduleResponse(serviceId, 400,
               [error |-> "Invalid frequency. Must be: hourly, daily, weekly, or custom"],
               body)
  /\ UNCHANGED <<services, schedules, credentials, costs, collection_status, req, now, attempts>>

\* 400: custom without customCron.
PutCustomWithoutCron(serviceId, body) ==
  /\ ~InvalidFrequency(body)
  /\ CustomWithoutCron(body)
  /\ sent' = ScheduleResponse(serviceId, 400,
               [error |-> "customCron is required when frequency is custom"], body)
  /\ UNCHANGED <<services, schedules, credentials, costs, collection_status, req, now, attempts>>

\* The schedule is stored with merge and returned.
PutSchedule(serviceId, body) ==
  /\ ~InvalidFrequency(body)
  /\ ~CustomWithoutCron(body)
  /\ schedules' = DocSetMerge(schedules, serviceId, ScheduleData(serviceId, body, now))
  /\ sent' = ScheduleResponse(serviceId, 200,
               [success |-> TRUE, serviceId |-> serviceId,
                schedule |-> ScheduleData(serviceId, body, now)], body)
  /\ UNCHANGED <<services, credentials, costs, collection_status, req, now, attempts>>

\* The write rejects.
PutScheduleFails(serviceId, body) ==
  /\ ~InvalidFrequency(body)
  /\ ~CustomWithoutCron(body)
  /\ sent' = ScheduleResponse(serviceId, 500, [error |-> ErrStoreWrite], body)
  /\ UNCHANGED <<services, schedules, credentials, costs, collection_status, req, now, attempts>>

NextSchedules ==
  \E body \in ScheduleBodies :
    \/ PutInvalidFrequency(ScheduleService, body)
    \/ PutCustomWithoutCron(ScheduleService, body)
    \/ PutSchedule(ScheduleService, body)
    \/ PutScheduleFails(ScheduleService, body)

SpecSchedules == InitSchedules /\ [][NextSchedules]_vars

\* C30. A PUT overwrites with defaults: one answered 200 that left out
\* enabled stores enabled = true, one that left out frequency stores
\* frequency = 'daily', whatever the stored schedule said; one answered 400
\* leaves the stored schedule as it was.
C30_PutOverwritesDefaults ==
  [][/\ sent'.code = 200 =>
          /\ ScheduleService \in DOMAIN schedules'
          /\ "enabled" \notin DOMAIN sent'.request =>
               /\ "enabled" \in DOMAIN schedules'[ScheduleService]
               /\ schedules'[ScheduleService].enabled = TRUE
          /\ "frequency" \notin DOMAIN sent'.request =>
               /\ "frequency" \in DOMAIN schedules'[ScheduleService]
               /\ schedules'[ScheduleService].frequency = DefaultFrequency
     /\ sent'.code = 400 =>
          /\ InvalidFrequency(sent'.request) \/ CustomWithoutCron(sent'.request)
          /\ schedules' = schedules]_vars

\* C30 witness: the stored schedule was disabled and weekly; a PUT without
\* enabled and without frequency was answered 200 and the schedule is enabled
\* and daily.
C30_Witness ==
  /\ sent.code = 200
  /\ DOMAIN sent.request = {}
  /\ "enabled" \in DOMAIN sent.stored
  /\ sent.stored.enabled = FALSE /\ sent.stored.frequency = "weekly"
  /\ schedules[ScheduleService].enabled = TRUE
  /\ schedules[ScheduleService].frequency = "daily"

====
